---- MODULE Spec2Model ----
(***************************************************************************)
(* critical-alert-service: the admission pipeline of Handler.do_POST       *)
(* (server.py) and its two lock-guarded stores, DedupeStore and            *)
(* RateLimiter (policy.py).                                                *)
(*                                                                         *)
(* Strings are sequences of one-character strings, so that split, strip,   *)
(* lower and startswith are computed.  time.time() is a float: the clock   *)
(* counts ticks of 1/TicksPerSecond second and int() truncates to whole    *)
(* seconds.  sha256 is taken to be collision-free: a digest is modelled by *)
(* the text it digests.  str() of an integer header value is kept as the   *)
(* integer.                                                                *)
(***************************************************************************)
EXTENDS Integers, Sequences, FiniteSets, TLC

VARIABLES
    config,   \* the immutable Config the server was created with
    clock,    \* the latest reading of time.time(), in ticks
    dstore,   \* DedupeStore._store: OrderedDict, first element = least recent
    dlock,    \* DedupeStore._lock: its holder, or NoWorker
    rstore,   \* RateLimiter._store
    rlock,    \* RateLimiter._lock
    pc,       \* each worker thread's position in do_POST
    req,      \* each worker's request
    now,      \* each worker's local `now` inside a store's check
    ent,      \* each worker's local `ts` / `entry` read from the store
    dres,     \* each worker's DedupeResult
    rres,     \* each worker's RateLimitResult
    resp,     \* the response each worker sent
    stages,   \* history: the stages each worker's request has run, in order
    dlog,     \* history: DedupeStore checks in the order they took the lock
    rlog,     \* history: RateLimiter checks in the order they took the lock
    nreq,     \* history: requests received so far
    hist,     \* whether this behaviour records dlog and rlog
    horizon,  \* the last tick time.time() reads in this behaviour
    touched,  \* history: the writes each worker's request made to each store
    racc      \* history: per rate key, the checks accepted in its current window

vars == <<config, clock, dstore, dlock, rstore, rlock, pc, req, now, ent,
          dres, rres, resp, stages, dlog, rlog, nreq, hist, horizon, touched,
          racc>>

(***************************************************************************)
(* Bounds of the model.                                                    *)
(***************************************************************************)
MaxTime == 2          \* time.time() never reads more than this many ticks
MaxReq == 2           \* requests received in one behaviour of two workers
MaxSeqReq == 3        \* requests received in one behaviour of one worker
MaxGateReq == 2       \* the same, when the requests are of every shape
MaxLruReq == 4        \* the same, when the stores fill up and evict
TicksPerSecond == 2   \* resolution of the float clock
MaxKeys == 1          \* config.policy_store_max_keys, scaled down

Workers == {"w1", "w2"}
NoWorker == "none"

(***************************************************************************)
(* Configuration (config.py).                                              *)
(***************************************************************************)
DedupeWindowSeconds == 1
RateLimitMax == 2
RateLimitWindowSeconds == 1
MaxBodyBytes == 2

AuthModes == {"token", "secret", "either", "both"}
AuthBearerTokens == << <<"t", "1">>, <<"t", "2">> >>
AuthSharedSecret == <<"s", "k">>

None == << "None" >>

(***************************************************************************)
(* Strings.                                                                *)
(***************************************************************************)
UpperChars == <<"A", "B", "C", "D", "E", "F", "G", "H", "I", "J", "K", "L", "M",
                "N", "O", "P", "Q", "R", "S", "T", "U", "V", "W", "X", "Y", "Z">>
LowerChars == <<"a", "b", "c", "d", "e", "f", "g", "h", "i", "j", "k", "l", "m",
                "n", "o", "p", "q", "r", "s", "t", "u", "v", "w", "x", "y", "z">>

LowerChar(c) ==
    IF \E i \in DOMAIN UpperChars : UpperChars[i] = c
    THEN LowerChars[CHOOSE i \in DOMAIN UpperChars : UpperChars[i] = c]
    ELSE c

\* str.lower()
Lower(s) == [i \in DOMAIN s |-> LowerChar(s[i])]

IsSpace(c) == c \in {" ", "\t", "\n"}

RECURSIVE SplitAcc(_, _, _, _)
SplitAcc(s, i, cur, acc) ==
    IF i > Len(s)
    THEN IF cur = <<>> THEN acc ELSE Append(acc, cur)
    ELSE IF IsSpace(s[i])
         THEN SplitAcc(s, i + 1, <<>>, IF cur = <<>> THEN acc ELSE Append(acc, cur))
         ELSE SplitAcc(s, i + 1, Append(cur, s[i]), acc)

\* str.split(): the maximal runs of non-whitespace
Split(s) == SplitAcc(s, 1, <<>>, <<>>)

RECURSIVE Join(_, _)
\* sep.join(words)
Join(sep, words) ==
    IF words = <<>> THEN <<>>
    ELSE IF Len(words) = 1 THEN words[1]
    ELSE words[1] \o sep \o Join(sep, Tail(words))

RECURSIVE LStrip(_)
LStrip(s) == IF s # <<>> /\ IsSpace(s[1]) THEN LStrip(Tail(s)) ELSE s

RECURSIVE RStrip(_)
RStrip(s) ==
    IF s # <<>> /\ IsSpace(s[Len(s)]) THEN RStrip(SubSeq(s, 1, Len(s) - 1)) ELSE s

\* str.strip()
Strip(s) == RStrip(LStrip(s))

\* str.startswith(p)
StartsWith(s, p) == Len(s) >= Len(p) /\ SubSeq(s, 1, Len(p)) = p

(***************************************************************************)
(* policy.py: the keys.                                                    *)
(***************************************************************************)
\* each step is bound to a variable, so that its value is computed once
_normalize_text(value) ==
    CHOOSE t \in {Join(<<" ">>, words) : words \in {Split(s) : s \in {Strip(v) : v \in {value}}}} : TRUE

\* a key part that keeps its letter case
_normalize_key_part_cased(value) == Strip(value)

_normalize_key_part(value) ==
    CHOOSE t \in {Lower(s) : s \in {Strip(v) : v \in {value}}} : TRUE

dedupe_key(alert) ==
    CHOOSE key \in {Join(<<"|">>, parts) : parts \in
                      {<< _normalize_key_part(alert.service),
                         _normalize_key_part(alert.environment),
                         _normalize_key_part(alert.error_code),
                         _normalize_key_part(alert.resource),
                         _normalize_text(alert.summary) >>}} : TRUE

rate_limit_key(alert) ==
    Join(<<"|">>, << _normalize_key_part(alert.service),
                     _normalize_key_part(alert.error_code) >>)

(***************************************************************************)
(* policy.py: the OrderedDict both stores keep.  A store is the sequence   *)
(* of its items in dictionary order; an item is [k |-> key, v |-> value].  *)
(***************************************************************************)
Has(store, key) == \E i \in DOMAIN store : store[i].k = key

\* OrderedDict.get(key): [some |-> TRUE, v |-> value], or [some |-> FALSE] for None
Get(store, key) ==
    IF Has(store, key)
    THEN [some |-> TRUE, v |-> store[CHOOSE i \in DOMAIN store : store[i].k = key].v]
    ELSE [some |-> FALSE]

\* store[key] = value: in place for a key already there, appended otherwise
SetItem(store, key, value) ==
    IF Has(store, key)
    THEN [i \in DOMAIN store |->
            IF store[i].k = key THEN [k |-> key, v |-> value] ELSE store[i]]
    ELSE Append(store, [k |-> key, v |-> value])

SelectSeqNot(store, key) ==
    LET F[i \in 0..Len(store)] ==
            IF i = 0 THEN <<>>
            ELSE IF store[i].k = key THEN F[i - 1] ELSE Append(F[i - 1], store[i])
    IN F[Len(store)]

\* a key that keeps its place
Unmoved(store, key) == store

\* OrderedDict.move_to_end(key); both checks call it for a key that is there
MoveToEnd(store, key) ==
    IF Has(store, key)
    THEN SelectSeqNot(store, key) \o << [k |-> key, v |-> Get(store, key).v] >>
    ELSE store

\* an eviction that drops every item
PopAll(store) == <<>>

\* OrderedDict.popitem(last=False)
PopFirst(store) == Tail(store)

(***************************************************************************)
(* server.py: authentication.                                              *)
(***************************************************************************)
Bearer == <<"b", "e", "a", "r", "e", "r">>

_extract_bearer_token(auth_header) ==
    IF auth_header = None \/ auth_header = <<>> THEN None
    ELSE LET parts == Split(auth_header)
         IN IF Len(parts) # 2 \/ Lower(parts[1]) # Bearer THEN None ELSE parts[2]

InList(x, list) == \E i \in DOMAIN list : list[i] = x

\* a guard whose mode `both` is content with one credential
_auth_ok_one_suffices(r, auth_mode) ==
    LET token == _extract_bearer_token(r.auth)
        secret_header_value == r.secret
        token_valid ==
            IF token # None /\ token # <<>>
            THEN InList(token, AuthBearerTokens) ELSE FALSE
        secret_valid ==
            IF secret_header_value # None /\ secret_header_value # <<>>
            THEN secret_header_value = AuthSharedSecret ELSE FALSE
    IN CASE auth_mode = "token" -> token_valid
         [] auth_mode = "secret" -> secret_valid
         [] auth_mode = "either" -> token_valid \/ secret_valid
         [] auth_mode = "both" -> token_valid \/ secret_valid
         [] OTHER -> FALSE

\* Handler._auth_ok, of the request's headers and config.auth_mode
_auth_ok(r, auth_mode) ==
    LET token == _extract_bearer_token(r.auth)
        secret_header_value == r.secret
        token_valid ==
            IF token # None /\ token # <<>>
            THEN InList(token, AuthBearerTokens) ELSE FALSE
        secret_valid ==
            IF secret_header_value # None /\ secret_header_value # <<>>
            THEN secret_header_value = AuthSharedSecret ELSE FALSE
    IN CASE auth_mode = "token" -> token_valid
         [] auth_mode = "secret" -> secret_valid
         [] auth_mode = "either" -> token_valid \/ secret_valid
         [] auth_mode = "both" -> token_valid /\ secret_valid
         [] OTHER -> FALSE

(***************************************************************************)
(* server.py: the body.  A request carries a Content-Length header (absent,*)
(* unparsable, or an integer), the number of bytes the client sends, and   *)
(* what the bytes read are: not UTF-8, not JSON, or the JSON of `payload`. *)
(***************************************************************************)
Min(a, b) == IF a < b THEN a ELSE b
Max(a, b) == IF a > b THEN a ELSE b

\* Handler._read_body: the length of the data read and the error ("" for None)
_read_body(r) ==
    IF r.clen.kind # "absent"
    THEN IF r.clen.kind = "bad"
         THEN [len |-> 0, err |-> "invalid content-length"]
         ELSE IF r.clen.n > MaxBodyBytes
              THEN [len |-> 0, err |-> "too_large"]
              ELSE LET data == Min(r.clen.n, r.avail)
                   IN IF data > MaxBodyBytes
                      THEN [len |-> 0, err |-> "too_large"]
                      ELSE [len |-> data, err |-> ""]
    ELSE LET data == Min(r.avail, MaxBodyBytes + 1)
         IN IF data > MaxBodyBytes
            THEN [len |-> 0, err |-> "too_large"]
            ELSE [len |-> data, err |-> ""]

(***************************************************************************)
(* schema.py: validate_alert, as far as the pipeline depends on it: the    *)
(* required fields are there and severity is the literal CRITICAL.         *)
(***************************************************************************)
RequiredFields ==
    {"severity", "service", "environment", "error_code", "summary", "details",
     "resource", "occurred_at"}

validate_alert(payload) ==
    /\ RequiredFields \subseteq DOMAIN payload
    /\ payload.severity = "CRITICAL"

(***************************************************************************)
(* server.py: responses.  Every JSON response goes through _send_json,     *)
(* which adds X-Request-Id; the 404 is a bare status line.                 *)
(***************************************************************************)
GeneratedId == <<"u", "l", "i", "d">>

\* do_POST line 126
request_id(r) == IF r.rid # None /\ r.rid # <<>> THEN r.rid ELSE GeneratedId

NoFields == [x \in {} |-> x]

NoResp == [kind |-> "none"]

BareResp(status) == [kind |-> "bare", status |-> status, headers |-> NoFields]

\* _error_body, _json_body(False, ...) and _send_json
ErrorResp(r, status, type, code, details, headers, www_auth) ==
    [kind |-> "error", status |-> status, request_id |-> request_id(r),
     type |-> type, code |-> code, details |-> details,
     headers |-> headers @@ [h \in {"X-Request-Id"} |-> request_id(r)],
     www_auth |-> www_auth]

\* _json_body(True, ...) and _send_json
SuccessResp(r, status, result, mailmux_status) ==
    [kind |-> "success", status |-> status, request_id |-> request_id(r),
     result |-> result, mailmux |-> mailmux_status,
     headers |-> [h \in {"X-Request-Id"} |-> request_id(r)]]

ExpectedJson == <<"a", "p", "p", "l", "i", "c", "a", "t", "i", "o", "n", "/",
                  "j", "s", "o", "n">>

(***************************************************************************)
(* do_POST lines 132-207: the stages that touch no shared state.  The      *)
(* result names the stages run, and the response when one rejected         *)
(* (`done`).  bytes.decode raises UnicodeDecodeError on bytes that are not *)
(* UTF-8, which is no JSONDecodeError: the outer handler answers 500.      *)
(***************************************************************************)
\* a handler without the catch-all: the fault leaves do_POST and nothing is sent
Unanswered(r) == NoResp

\* lines 298-305: the answer to any exception raised inside the try block
InternalResp(r) == ErrorResp(r, 500, "INTERNAL", "INTERNAL", NoFields, NoFields, FALSE)

\* lines 161-207, after the stages st: read the body, parse it, validate it
BodyStages(r, st) ==
    IF _read_body(r).err = "too_large"
    THEN [done |-> TRUE, st |-> Append(st, "body"),
          resp |-> ErrorResp(r, 413, "VALIDATION", "PAYLOAD_TOO_LARGE",
                             NoFields, NoFields, FALSE)]
    ELSE IF _read_body(r).err # ""
    THEN [done |-> TRUE, st |-> Append(st, "body"),
          resp |-> ErrorResp(r, 400, "VALIDATION", "JSON_INVALID",
                             NoFields, NoFields, FALSE)]
    ELSE IF r.text = "bad_utf8"
    THEN [done |-> TRUE, st |-> st \o <<"body", "json">>, resp |-> InternalResp(r)]
    ELSE IF r.text = "bad_json"
    THEN [done |-> TRUE, st |-> st \o <<"body", "json">>,
          resp |-> ErrorResp(r, 400, "VALIDATION", "JSON_INVALID",
                             NoFields, NoFields, FALSE)]
    ELSE IF ~validate_alert(r.payload)
    THEN [done |-> TRUE, st |-> st \o <<"body", "json", "schema">>,
          resp |-> ErrorResp(r, 400, "VALIDATION", "SCHEMA_INVALID",
                             [field_errors |-> TRUE], NoFields, FALSE)]
    ELSE [done |-> FALSE, st |-> st \o <<"body", "json", "schema">>, resp |-> NoResp]

\* lines 150-159: the 401
Unauthorized(r, st) ==
    [done |-> TRUE, st |-> Append(st, "auth"),
     resp |-> ErrorResp(r, 401, "AUTH", "AUTH_INVALID", NoFields, NoFields, TRUE)]

\* a handler that reads and validates the body before it authenticates
LocalStagesBodyFirst(r, auth_mode) ==
    IF r.path # "/v1/alerts"
    THEN [done |-> TRUE, st |-> <<"path">>, resp |-> BareResp(404)]
    ELSE IF ~StartsWith(Lower(r.ctype), ExpectedJson)
    THEN [done |-> TRUE, st |-> <<"path", "ctype">>,
          resp |-> ErrorResp(r, 415, "VALIDATION", "UNSUPPORTED_MEDIA_TYPE",
                             NoFields, NoFields, FALSE)]
    ELSE LET body == BodyStages(r, <<"path", "ctype">>)
         IN IF body.done THEN body
            ELSE IF ~_auth_ok(r, auth_mode) THEN Unauthorized(r, body.st)
            ELSE [body EXCEPT !.st = Append(@, "auth")]

LocalStages(r, auth_mode) ==
    IF r.path # "/v1/alerts"
    THEN [done |-> TRUE, st |-> <<"path">>, resp |-> BareResp(404)]
    ELSE IF ~StartsWith(Lower(r.ctype), ExpectedJson)
    THEN [done |-> TRUE, st |-> <<"path", "ctype">>,
          resp |-> ErrorResp(r, 415, "VALIDATION", "UNSUPPORTED_MEDIA_TYPE",
                             NoFields, NoFields, FALSE)]
    ELSE IF ~_auth_ok(r, auth_mode)
    THEN Unauthorized(r, <<"path", "ctype">>)
    ELSE BodyStages(r, <<"path", "ctype", "auth">>)

(***************************************************************************)
(* policy.py: DedupeStore.check lines 57-63 and RateLimiter.check lines    *)
(* 90-107, the part run under the lock once the item has been read.  Times *)
(* are ticks; a window of w seconds is w * TicksPerSecond ticks.           *)
(***************************************************************************)
Ticks(seconds) == seconds * TicksPerSecond

\* int() of a float number of seconds given in ticks: truncation towards zero
IntSeconds(ticks) ==
    IF ticks >= 0 THEN ticks \div TicksPerSecond ELSE -((-ticks) \div TicksPerSecond)

Accepted == "Accepted"
Deduped == "Deduped"
RateLimited == "RateLimited"
Evicted == "Evicted"

\* a check that stamps the key with the time of a suppressed duplicate
DedupeUpdateRefresh(store, key, ts, t, window) ==
    IF ts.some /\ (t - ts.v) < Ticks(window)
    THEN LET remaining == IntSeconds(Ticks(window) - (t - ts.v))
         IN [store |-> MoveToEnd(SetItem(store, key, t), key),
             res |-> [deduped |-> TRUE, dedupe_key |-> key,
                      retry_after |-> Max(0, remaining)]]
    ELSE [store |-> MoveToEnd(SetItem(store, key, t), key),
          res |-> [deduped |-> FALSE, dedupe_key |-> key]]

\* a check that still suppresses when exactly the window has passed
DedupeUpdateInclusive(store, key, ts, t, window) ==
    IF ts.some /\ (t - ts.v) <= Ticks(window)
    THEN LET remaining == IntSeconds(Ticks(window) - (t - ts.v))
         IN [store |-> MoveToEnd(store, key),
             res |-> [deduped |-> TRUE, dedupe_key |-> key,
                      retry_after |-> Max(0, remaining)]]
    ELSE [store |-> MoveToEnd(SetItem(store, key, t), key),
          res |-> [deduped |-> FALSE, dedupe_key |-> key]]

\* a check that accepts a key again without recording the time
DedupeUpdateKeepsStamp(store, key, ts, t, window) ==
    IF ts.some /\ (t - ts.v) < Ticks(window)
    THEN LET remaining == IntSeconds(Ticks(window) - (t - ts.v))
         IN [store |-> MoveToEnd(store, key),
             res |-> [deduped |-> TRUE, dedupe_key |-> key,
                      retry_after |-> Max(0, remaining)]]
    ELSE [store |-> IF ts.some THEN MoveToEnd(store, key)
                    ELSE MoveToEnd(SetItem(store, key, t), key),
          res |-> [deduped |-> FALSE, dedupe_key |-> key]]

\* a check that suppresses for twice the window it reports
DedupeUpdateTwice(store, key, ts, t, window) ==
    IF ts.some /\ (t - ts.v) < 2 * Ticks(window)
    THEN LET remaining == IntSeconds(Ticks(window) - (t - ts.v))
         IN [store |-> MoveToEnd(store, key),
             res |-> [deduped |-> TRUE, dedupe_key |-> key,
                      retry_after |-> Max(0, remaining)]]
    ELSE [store |-> MoveToEnd(SetItem(store, key, t), key),
          res |-> [deduped |-> FALSE, dedupe_key |-> key]]

\* lines 58-63: ts is the item read at line 57
DedupeUpdate(store, key, ts, t, window) ==
    IF ts.some /\ (t - ts.v) < Ticks(window)
    THEN LET remaining == IntSeconds(Ticks(window) - (t - ts.v))
         IN [store |-> MoveToEnd(store, key),
             res |-> [deduped |-> TRUE, dedupe_key |-> key,
                      retry_after |-> Max(0, remaining)]]
    ELSE [store |-> MoveToEnd(SetItem(store, key, t), key),
          res |-> [deduped |-> FALSE, dedupe_key |-> key]]

\* a check that lets one request more than max through in a window
RateUpdateLate(store, key, entry, t, max, window) ==
    IF ~entry.some
    THEN [store |-> MoveToEnd(SetItem(store, key, [start |-> t, count |-> 1]), key),
          res |-> [rate_limited |-> FALSE, key |-> key]]
    ELSE LET window_start == entry.v.start
             count == entry.v.count
         IN IF (t - window_start) >= Ticks(window)
            THEN [store |-> MoveToEnd(SetItem(store, key, [start |-> t, count |-> 1]), key),
                  res |-> [rate_limited |-> FALSE, key |-> key]]
            ELSE IF count > max
            THEN [store |-> MoveToEnd(store, key),
                  res |-> [rate_limited |-> TRUE, key |-> key,
                           retry_after |->
                               IntSeconds(Max(0, window_start + Ticks(window) - t)),
                           reset_at |-> IntSeconds(window_start + Ticks(window))]]
            ELSE [store |-> MoveToEnd(SetItem(store, key,
                                [start |-> window_start, count |-> count + 1]), key),
                  res |-> [rate_limited |-> FALSE, key |-> key]]

\* a check that counts a denied request
RateUpdateCountsDenied(store, key, entry, t, max, window) ==
    IF ~entry.some
    THEN [store |-> MoveToEnd(SetItem(store, key, [start |-> t, count |-> 1]), key),
          res |-> [rate_limited |-> FALSE, key |-> key]]
    ELSE LET window_start == entry.v.start
             count == entry.v.count
         IN IF (t - window_start) >= Ticks(window)
            THEN [store |-> MoveToEnd(SetItem(store, key, [start |-> t, count |-> 1]), key),
                  res |-> [rate_limited |-> FALSE, key |-> key]]
            ELSE IF count >= max
            THEN [store |-> MoveToEnd(SetItem(store, key,
                                [start |-> window_start, count |-> count + 1]), key),
                  res |-> [rate_limited |-> TRUE, key |-> key,
                           retry_after |->
                               IntSeconds(Max(0, window_start + Ticks(window) - t)),
                           reset_at |-> IntSeconds(window_start + Ticks(window))]]
            ELSE [store |-> MoveToEnd(SetItem(store, key,
                                [start |-> window_start, count |-> count + 1]), key),
                  res |-> [rate_limited |-> FALSE, key |-> key]]

\* a check whose window slides: an accepted request restarts it
RateUpdateSliding(store, key, entry, t, max, window) ==
    IF ~entry.some
    THEN [store |-> MoveToEnd(SetItem(store, key, [start |-> t, count |-> 1]), key),
          res |-> [rate_limited |-> FALSE, key |-> key]]
    ELSE LET window_start == entry.v.start
             count == entry.v.count
         IN IF (t - window_start) >= Ticks(window)
            THEN [store |-> MoveToEnd(SetItem(store, key, [start |-> t, count |-> 1]), key),
                  res |-> [rate_limited |-> FALSE, key |-> key]]
            ELSE IF count >= max
            THEN [store |-> MoveToEnd(store, key),
                  res |-> [rate_limited |-> TRUE, key |-> key,
                           retry_after |->
                               IntSeconds(Max(0, window_start + Ticks(window) - t)),
                           reset_at |-> IntSeconds(window_start + Ticks(window))]]
            ELSE [store |-> MoveToEnd(SetItem(store, key,
                                [start |-> t, count |-> count + 1]), key),
                  res |-> [rate_limited |-> FALSE, key |-> key]]

\* lines 91-107: entry is the item read at line 90
RateUpdate(store, key, entry, t, max, window) ==
    IF ~entry.some
    THEN [store |-> MoveToEnd(SetItem(store, key, [start |-> t, count |-> 1]), key),
          res |-> [rate_limited |-> FALSE, key |-> key]]
    ELSE LET window_start == entry.v.start
             count == entry.v.count
         IN IF (t - window_start) >= Ticks(window)
            THEN [store |-> MoveToEnd(SetItem(store, key, [start |-> t, count |-> 1]), key),
                  res |-> [rate_limited |-> FALSE, key |-> key]]
            ELSE IF count >= max
            THEN [store |-> MoveToEnd(store, key),
                  res |-> [rate_limited |-> TRUE, key |-> key,
                           retry_after |->
                               IntSeconds(Max(0, window_start + Ticks(window) - t)),
                           reset_at |-> IntSeconds(window_start + Ticks(window))]]
            ELSE [store |-> MoveToEnd(SetItem(store, key,
                                [start |-> window_start, count |-> count + 1]), key),
                  res |-> [rate_limited |-> FALSE, key |-> key]]

\* a store that is checked whatever its window
AlwaysEnabled(window) == FALSE

\* DedupeStore.check line 53: a window of 0 disables the store
DedupeDisabled(window) == window = 0

\* RateLimiter.check line 86: a max of 0 disables the limiter
RateDisabled(max) == max = 0

\* a check that does not wait for the lock
LockIgnored(lock) == TRUE

\* `with self._lock`: the lock can be taken when nobody holds it
LockFree(lock) == lock = NoWorker

\* a check that returns with the lock still held
KeepLock(w) == w

\* a denial that returns with the lock still held
HeldOnDenial(w) == w

\* policy.py lines 61 and 104: `return` inside the with block leaves the lock
ReleaseOnDenial(w) == NoWorker

\* leaving the `with self._lock` block: the lock's holder once w has left it
Release(w) == NoWorker

\* a loop that lets the store grow one item past its capacity
OverCapacityLate(store, max_keys) == Len(store) > max_keys + 1

\* the eviction loops' condition, lines 64 and 108
OverCapacity(store, max_keys) == Len(store) > max_keys

\* a handler that answers 409 or 429 and, the `return` missing, goes on
AfterDedupedFallThrough == "rate"
AfterRateLimitedFallThrough == "send"

\* where do_POST goes after a rejection by a store: `return`, lines 231 and 258
AfterDeduped == "done"
AfterRateLimited == "done"

\* a handler that, after a timeout, goes back to the rate limiter and sends again
AfterUpstreamRecheck(u) == IF u.kind = "timeout" THEN "rate" ELSE "done"

\* a handler that sends again after a timeout
AfterUpstreamRetry(u) == IF u.kind = "timeout" THEN "send" ELSE "done"

\* where do_POST goes after the upstream result u: every branch of lines 262-296
\* ends the request
AfterUpstream(u) == "done"

(***************************************************************************)
(* The requests the model sends.                                           *)
(***************************************************************************)
Alert(service, resource) ==
    [severity |-> "CRITICAL", service |-> service, environment |-> <<"p">>,
     error_code |-> <<"E">>, summary |-> <<"d", "b", " ", "d", "o", "w", "n">>,
     details |-> <<>>, resource |-> resource, occurred_at |-> <<"T">>]

AlertA1 == Alert(<<"s">>, <<"r", "1">>)
AlertA1x == Alert(<<"S">>, <<" ", "R", "1">>)   \* AlertA1 up to case and outer whitespace
AlertA2 == Alert(<<"s">>, <<"r", "2">>)
AlertA3 == Alert(<<"s">>, <<"r", "3">>)
AlertB == Alert(<<"t">>, <<"r", "1">>)
AlertC == Alert(<<"u">>, <<"r", "1">>)
NotCritical == [AlertA1 EXCEPT !.severity = "WARNING"]
NoResource == [f \in RequiredFields \ {"resource"} |-> AlertA1[f]]

JsonType == ExpectedJson
JsonTypeCharset ==
    <<"A", "p", "p", "l", "i", "c", "a", "t", "i", "o", "n", "/", "J", "S", "O", "N",
      ";", " ", "c", "h", "a", "r", "s", "e", "t", "=", "u", "t", "f", "-", "8">>
TextType == <<"t", "e", "x", "t", "/", "p", "l", "a", "i", "n">>

BearerT1 == <<"B", "e", "a", "r", "e", "r", " ", "t", "1">>
BearerLowerT2 == <<"b", "e", "a", "r", "e", "r", " ", " ", "t", "2">>
BearerBad == <<"B", "e", "a", "r", "e", "r", " ", "t", "9">>
BasicT1 == <<"B", "a", "s", "i", "c", " ", "t", "1">>
BearerOnly == <<"B", "e", "a", "r", "e", "r">>
BearerThree == <<"B", "e", "a", "r", "e", "r", " ", "t", "1", " ", "x">>
BadSecret == <<"s", "K">>

AuthHeaders ==
    {None, <<>>, BearerT1, BearerLowerT2, BearerBad, BasicT1, BearerOnly, BearerThree}
SecretHeaders == {None, <<>>, AuthSharedSecret, BadSecret}

Request(path, ctype, auth, secret, clen, avail, text, payload) ==
    [path |-> path, ctype |-> ctype, auth |-> auth, secret |-> secret, rid |-> None,
     clen |-> clen, avail |-> avail, text |-> text, payload |-> payload]

NoLength == [kind |-> "absent"]
BadLength == [kind |-> "bad"]
Length(n) == [kind |-> "int", n |-> n]

\* a well-formed request carrying `alert`, with both credentials
Good(alert) ==
    Request("/v1/alerts", JsonType, BearerT1, AuthSharedSecret, Length(1), 1, "json",
            alert)

\* the bodies: [clen, avail, text, payload]
Bodies ==
    {[clen |-> Length(1), avail |-> 1, text |-> "json", payload |-> AlertA1],
     [clen |-> NoLength, avail |-> MaxBodyBytes, text |-> "json", payload |-> AlertA1],
     [clen |-> Length(MaxBodyBytes + 1), avail |-> 1, text |-> "json", payload |-> AlertA1],
     [clen |-> NoLength, avail |-> MaxBodyBytes + 1, text |-> "json", payload |-> AlertA1],
     [clen |-> BadLength, avail |-> 1, text |-> "json", payload |-> AlertA1],
     [clen |-> Length(1), avail |-> 1, text |-> "bad_utf8", payload |-> AlertA1],
     [clen |-> Length(1), avail |-> 1, text |-> "bad_json", payload |-> AlertA1],
     [clen |-> Length(1), avail |-> 1, text |-> "json", payload |-> NotCritical],
     [clen |-> Length(1), avail |-> 1, text |-> "json", payload |-> NoResource]}

WithBody(r, b) ==
    [r EXCEPT !.clen = b.clen, !.avail = b.avail, !.text = b.text, !.payload = b.payload]

\* the credentials: [auth, secret]
CoreCreds ==
    {[auth |-> None, secret |-> None],
     [auth |-> BearerT1, secret |-> None],
     [auth |-> None, secret |-> AuthSharedSecret],
     [auth |-> BearerT1, secret |-> AuthSharedSecret],
     [auth |-> BearerBad, secret |-> BadSecret]}
AllCreds == [auth : AuthHeaders, secret : SecretHeaders]

WithCreds(r, c) == [r EXCEPT !.auth = c.auth, !.secret = c.secret]

\* a request that carries the X-Request-Id header, or carries it empty
GivenId == <<"r", "q", "1">>
WithId(r, id) == [r EXCEPT !.rid = id]

\* two workers: the alerts, and a request without its secret
FlowRequests ==
    {Good(a) : a \in {AlertA1, AlertA2, AlertB}}
    \cup {WithCreds(Good(AlertA1), [auth |-> BearerT1, secret |-> None])}

\* one worker, with the history of the checks: alerts that share keys or not
LogRequests == {Good(a) : a \in {AlertA1, AlertA2, AlertA3, AlertB, AlertC}}

\* one worker: every credential, every body, every content type
GateRequests ==
    {Good(a) : a \in {AlertA1, AlertA1x, AlertA2, AlertB}}
    \cup {WithCreds(Good(AlertA1), c) : c \in AllCreds}
    \cup {WithBody(WithCreds(Good(AlertA1), c), b) : c \in CoreCreds, b \in Bodies}
    \cup {[WithBody(WithCreds(Good(AlertA1), c), b) EXCEPT !.path = p, !.ctype = t] :
            c \in {[auth |-> None, secret |-> None],
                   [auth |-> BearerT1, secret |-> AuthSharedSecret]},
            b \in {x \in Bodies : x.text = "bad_json" \/ x.payload = NotCritical},
            p \in {"/v1/alerts", "/v1/other"},
            t \in {JsonType, JsonTypeCharset, TextType, <<>>}}
    \cup {WithId([WithBody(Good(AlertA1), b) EXCEPT !.path = p], id) :
            b \in {x \in Bodies : x.clen = Length(1) /\ x.payload = AlertA1},
            p \in {"/v1/alerts", "/v1/other"},
            id \in {GivenId, <<>>}}

\* what requests.post can do: a response with a status, requests.Timeout, or
\* another requests.RequestException
UpstreamResults ==
    {[kind |-> "timeout"], [kind |-> "error"]}
    \cup {[kind |-> "status", status |-> c] : c \in {199, 200, 204, 299, 300, 404, 500}}

(***************************************************************************)
(* The state machine.  A worker thread serves one request at a time        *)
(* (ThreadingHTTPServer: one thread per request).                          *)
(***************************************************************************)
NoReq == [kind |-> "none"]
NoResult == [kind |-> "none"]
NoItem == [some |-> FALSE]
NoWrites == [d |-> 0, r |-> 0]

TheConfig(auth_mode, rate_limit_max, max_keys) ==
    [auth_mode |-> auth_mode,
     dedupe_window_seconds |-> DedupeWindowSeconds,
     rate_limit_max |-> rate_limit_max,
     rate_limit_window_seconds |-> RateLimitWindowSeconds,
     policy_store_max_keys |-> max_keys]

\* create_server: Policy(config) builds both stores empty and unlocked
InitAt(configs, history, last) ==
    /\ hist = history
    /\ horizon = last
    /\ config \in configs
    /\ clock = 0
    /\ dstore = <<>>
    /\ dlock = NoWorker
    /\ rstore = <<>>
    /\ rlock = NoWorker
    /\ pc = [w \in Workers |-> "idle"]
    /\ req = [w \in Workers |-> NoReq]
    /\ now = [w \in Workers |-> 0]
    /\ ent = [w \in Workers |-> NoItem]
    /\ dres = [w \in Workers |-> NoResult]
    /\ rres = [w \in Workers |-> NoResult]
    /\ resp = [w \in Workers |-> NoResp]
    /\ stages = [w \in Workers |-> <<>>]
    /\ touched = [w \in Workers |-> NoWrites]
    /\ racc = NoFields
    /\ dlog = <<>>
    /\ rlog = <<>>
    /\ nreq = 0

InitOf(configs, history) == InitAt(configs, history, MaxTime)

InitWith(modes, maxes, max_keys, history) ==
    InitOf({TheConfig(m, n, max_keys) : m \in modes, n \in maxes}, history)

Init == InitWith({"both"}, {1, RateLimitMax}, MaxKeys, FALSE)

InitGate == InitWith(AuthModes, {1}, MaxKeys, FALSE)

\* one key more than the other specifications: the stores keep an order
InitLog == InitWith({"both"}, {1, RateLimitMax}, MaxKeys + 1, TRUE)

\* three rate keys, one of them shared by two alerts
LruRequests == {Good(a) : a \in {AlertA1, AlertA2, AlertB, AlertC}}

\* the stores hold two keys and deny the second request of a rate key
InitLru == InitWith({"both"}, {1}, MaxKeys + 1, TRUE)

\* CAS_DEDUPE_WINDOW_SECONDS and CAS_RATE_LIMIT_MAX may be 0: one store
\* disabled, or both
OffConfigs ==
    {[TheConfig("both", n, MaxKeys) EXCEPT !.dedupe_window_seconds = d] :
        d \in {0, DedupeWindowSeconds}, n \in {0, 1}}
    \ {TheConfig("both", 1, MaxKeys)}

InitOff == InitOf(OffConfigs, FALSE)

\* two workers: a delivery and a failure
FlowResults == {[kind |-> "status", status |-> 200], [kind |-> "timeout"]}

\* the history of a store's checks, kept when hist says so
Record(log, entry) == IF hist THEN Append(log, entry) ELSE log

\* time.time(): a reading no earlier than the latest one
Readings == clock..horizon

\* X-Dedupe-* headers of the 409, lines 213-219
DedupeHeaders(result, window) ==
    [h \in {"X-Policy-Result"} |-> "deduped"]
    @@ [h \in {"X-Dedupe-Key"} |-> result.dedupe_key]
    @@ [h \in {"X-Dedupe-Window-Seconds"} |-> window]
    @@ (IF "retry_after" \in DOMAIN result
        THEN [h \in {"Retry-After"} |-> result.retry_after] ELSE NoFields)

\* do_POST lines 211-231: the 409
DedupedResp(r, result, window) ==
    ErrorResp(r, 409, "POLICY", "DEDUPED",
              [dedupe_window_seconds |-> window, dedupe_key |-> result.dedupe_key],
              DedupeHeaders(result, window), FALSE)

\* X-RateLimit-* headers of the 429, lines 237-245
RateHeaders(result, max) ==
    [h \in {"X-Policy-Result"} |-> "rate_limited"]
    @@ [h \in {"X-RateLimit-Limit"} |-> max]
    @@ [h \in {"X-RateLimit-Remaining"} |-> 0]
    @@ (IF "reset_at" \in DOMAIN result
        THEN [h \in {"X-RateLimit-Reset"} |-> result.reset_at] ELSE NoFields)
    @@ (IF "retry_after" \in DOMAIN result
        THEN [h \in {"Retry-After"} |-> result.retry_after] ELSE NoFields)

\* do_POST lines 235-258: the 429
RateLimitedResp(r, result, max, window) ==
    ErrorResp(r, 429, "POLICY", "RATE_LIMITED",
              [rate_limit_max |-> max, rate_limit_window_seconds |-> window,
               key |-> result.key],
              RateHeaders(result, max), FALSE)

\* a handler that takes status 300 for a success
ClassifyInclusive(r, u) ==
    IF u.kind = "timeout"
    THEN ErrorResp(r, 504, "UPSTREAM", "MAILMUX_TIMEOUT", [timeout_ms |-> TRUE],
                   NoFields, FALSE)
    ELSE IF u.kind = "error"
    THEN ErrorResp(r, 502, "UPSTREAM", "MAILMUX_FAILED", [upstream_status |-> 0],
                   NoFields, FALSE)
    ELSE IF 200 <= u.status /\ u.status <= 300
    THEN SuccessResp(r, 202, "DELIVERED", u.status)
    ELSE ErrorResp(r, 502, "UPSTREAM", "MAILMUX_FAILED", [upstream_status |-> u.status],
                   NoFields, FALSE)

\* lines 262-296: what do_POST answers to the upstream result u
Classify(r, u) ==
    IF u.kind = "timeout"
    THEN ErrorResp(r, 504, "UPSTREAM", "MAILMUX_TIMEOUT", [timeout_ms |-> TRUE],
                   NoFields, FALSE)
    ELSE IF u.kind = "error"
    THEN ErrorResp(r, 502, "UPSTREAM", "MAILMUX_FAILED", [upstream_status |-> 0],
                   NoFields, FALSE)
    ELSE IF 200 <= u.status /\ u.status < 300
    THEN SuccessResp(r, 202, "DELIVERED", u.status)
    ELSE ErrorResp(r, 502, "UPSTREAM", "MAILMUX_FAILED", [upstream_status |-> u.status],
                   NoFields, FALSE)

(***************************************************************************)
(* The actions.  A step that touches nothing shared is taken together with *)
(* the step before it: the stages before the stores with the first reading *)
(* of the clock, the 409 and 429 with the release of the lock.             *)
(***************************************************************************)

\* do_POST lines 124-210 for request r, into DedupeStore.check lines 53-55
Receive(w, r) ==
    /\ pc[w] = "idle"
    /\ nreq' = nreq + 1
    /\ req' = [req EXCEPT ![w] = r]
    /\ \E out \in {LocalStages(r, config.auth_mode)} :
          IF out.done
          THEN /\ stages' = [stages EXCEPT ![w] = out.st]
               /\ resp' = [resp EXCEPT ![w] = out.resp]
               /\ pc' = [pc EXCEPT ![w] = "done"]
               /\ UNCHANGED <<clock, now, dres>>
          ELSE /\ stages' = [stages EXCEPT ![w] = Append(out.st, "dedupe")]
               /\ resp' = resp
               /\ IF DedupeDisabled(config.dedupe_window_seconds)
                  THEN /\ dres' = [dres EXCEPT ![w] =
                                [deduped |-> FALSE, dedupe_key |-> dedupe_key(r.payload)]]
                       /\ pc' = [pc EXCEPT ![w] = "rate"]
                       /\ UNCHANGED <<clock, now>>
                  ELSE /\ \E t \in Readings :
                            /\ clock' = t
                            /\ now' = [now EXCEPT ![w] = t]
                       /\ pc' = [pc EXCEPT ![w] = "d_lock"]
                       /\ dres' = dres
    /\ UNCHANGED <<config, hist, horizon, touched, racc, dstore, dlock, rstore, rlock, ent, rres, dlog, rlog>>

\* DedupeStore.check lines 56-57: take the lock, read the item
DEnter(w) ==
    /\ pc[w] = "d_lock"
    /\ LockFree(dlock)
    /\ dlock' = w
    /\ \E item \in {Get(dstore, dedupe_key(req[w].payload))} :
          ent' = [ent EXCEPT ![w] = item]
    /\ pc' = [pc EXCEPT ![w] = "d_update"]
    /\ UNCHANGED <<config, hist, horizon, touched, racc, clock, dstore, rstore, rlock, req, now, dres, rres, resp,
                   stages, dlog, rlog, nreq>>

\* lines 58-63; a hit returns at line 61, leaving the lock, and do_POST answers 409
DUpdate(w) ==
    /\ pc[w] = "d_update"
    /\ \E key \in {dedupe_key(req[w].payload)} :
       \E out \in {DedupeUpdate(dstore, key, ent[w], now[w],
                                 config.dedupe_window_seconds)} :
          /\ dstore' = out.store
          /\ dres' = [dres EXCEPT ![w] = out.res]
          /\ dlog' = Record(dlog, [k |-> key, t |-> now[w],
                                   res |-> IF out.res.deduped THEN Deduped ELSE Accepted,
                                   out |-> out.res])
          /\ touched' = [touched EXCEPT ![w].d = @ + 1]
          /\ IF out.res.deduped
             THEN /\ dlock' = ReleaseOnDenial(w)
                  /\ ent' = [ent EXCEPT ![w] = NoItem]
                  /\ now' = [now EXCEPT ![w] = 0]
                  /\ resp' = [resp EXCEPT ![w] =
                        DedupedResp(req[w], out.res, config.dedupe_window_seconds)]
                  /\ pc' = [pc EXCEPT ![w] = AfterDeduped]
             ELSE /\ pc' = [pc EXCEPT ![w] = "d_evict"]
                  /\ UNCHANGED <<dlock, ent, now, resp>>
    /\ UNCHANGED <<config, hist, horizon, racc, clock, rstore, rlock, req, rres, stages, rlog, nreq>>

\* lines 64-65: one turn of the eviction loop
DEvict(w) ==
    /\ pc[w] = "d_evict"
    /\ OverCapacity(dstore, config.policy_store_max_keys)
    /\ dstore' = PopFirst(dstore)
    /\ touched' = [touched EXCEPT ![w].d = @ + 1]
    /\ dlog' = Record(dlog, [k |-> dstore[1].k, t |-> now[w], res |-> Evicted])
    /\ UNCHANGED <<config, hist, horizon, racc, clock, dlock, rstore, rlock, pc, req, now, ent, dres, rres,
                   resp, stages, rlog, nreq>>

\* the loop ends, the lock is left, check returns at line 66
DExit(w) ==
    /\ pc[w] = "d_evict"
    /\ ~OverCapacity(dstore, config.policy_store_max_keys)
    /\ dlock' = Release(w)
    /\ ent' = [ent EXCEPT ![w] = NoItem]
    /\ now' = [now EXCEPT ![w] = 0]
    /\ pc' = [pc EXCEPT ![w] = "rate"]
    /\ UNCHANGED <<config, hist, horizon, touched, racc, clock, dstore, rstore, rlock, req, dres, rres, resp, stages,
                   dlog, rlog, nreq>>

\* The accepted checks of a key's current window, counted from the store as it is
\* when the check is accepted: a window starts when the store holds no item for
\* the key, or one whose window has elapsed.
AcceptedInWindow(acc, store, key, t, window) ==
    LET n == IF Has(store, key) /\ key \in DOMAIN acc
                /\ (t - Get(store, key).v.start) < Ticks(window)
             THEN acc[key] + 1 ELSE 1
    IN [k \in DOMAIN acc \cup {key} |-> IF k = key THEN n ELSE acc[k]]

\* do_POST lines 233-234 and RateLimiter.check lines 86-88
RStart(w) ==
    /\ pc[w] = "rate"
    /\ IF RateDisabled(config.rate_limit_max)
       THEN /\ rres' = [rres EXCEPT ![w] =
                          [rate_limited |-> FALSE, key |-> rate_limit_key(req[w].payload)]]
            /\ stages' = [stages EXCEPT ![w] = Append(@, "rate")]
            /\ pc' = [pc EXCEPT ![w] = "send"]
            /\ UNCHANGED <<clock, now>>
       ELSE /\ \E t \in Readings :
                 /\ clock' = t
                 /\ now' = [now EXCEPT ![w] = t]
            /\ stages' = [stages EXCEPT ![w] = Append(@, "rate")]
            /\ pc' = [pc EXCEPT ![w] = "r_lock"]
            /\ rres' = rres
    /\ UNCHANGED <<config, hist, horizon, touched, racc, dstore, dlock, rstore, rlock, req, ent, dres, resp, dlog,
                   rlog, nreq>>

\* lines 89-90: take the lock, read the item
REnter(w) ==
    /\ pc[w] = "r_lock"
    /\ LockFree(rlock)
    /\ rlock' = w
    /\ \E item \in {Get(rstore, rate_limit_key(req[w].payload))} :
          ent' = [ent EXCEPT ![w] = item]
    /\ pc' = [pc EXCEPT ![w] = "r_update"]
    /\ UNCHANGED <<config, hist, horizon, touched, racc, clock, dstore, dlock, rstore, req, now, dres, rres, resp,
                   stages, dlog, rlog, nreq>>

\* lines 91-107; a denial returns at line 104, leaving the lock, and do_POST answers 429
RUpdate(w) ==
    /\ pc[w] = "r_update"
    /\ \E key \in {rate_limit_key(req[w].payload)} :
       \E out \in {RateUpdate(rstore, key, ent[w], now[w], config.rate_limit_max,
                               config.rate_limit_window_seconds)} :
          /\ rstore' = out.store
          /\ rres' = [rres EXCEPT ![w] = out.res]
          /\ rlog' = Record(rlog,
                [k |-> key, t |-> now[w],
                 res |-> IF out.res.rate_limited THEN RateLimited ELSE Accepted,
                 out |-> out.res])
          /\ touched' = [touched EXCEPT ![w].r = @ + 1]
          /\ racc' = IF out.res.rate_limited THEN racc
                     ELSE AcceptedInWindow(racc, rstore, key, now[w],
                                           config.rate_limit_window_seconds)
          /\ IF out.res.rate_limited
             THEN /\ rlock' = ReleaseOnDenial(w)
                  /\ ent' = [ent EXCEPT ![w] = NoItem]
                  /\ now' = [now EXCEPT ![w] = 0]
                  /\ resp' = [resp EXCEPT ![w] =
                        RateLimitedResp(req[w], out.res, config.rate_limit_max,
                                        config.rate_limit_window_seconds)]
                  /\ pc' = [pc EXCEPT ![w] = AfterRateLimited]
             ELSE /\ pc' = [pc EXCEPT ![w] = "r_evict"]
                  /\ UNCHANGED <<rlock, ent, now, resp>>
    /\ UNCHANGED <<config, hist, horizon, clock, dstore, dlock, req, dres, stages, dlog, nreq>>

\* lines 108-109: one turn of the eviction loop
REvict(w) ==
    /\ pc[w] = "r_evict"
    /\ OverCapacity(rstore, config.policy_store_max_keys)
    /\ rstore' = PopFirst(rstore)
    /\ touched' = [touched EXCEPT ![w].r = @ + 1]
    /\ racc' = [k \in DOMAIN racc \ {rstore[1].k} |-> racc[k]]
    /\ rlog' = Record(rlog, [k |-> rstore[1].k, t |-> now[w], res |-> Evicted])
    /\ UNCHANGED <<config, hist, horizon, clock, dstore, dlock, rlock, pc, req, now, ent, dres, rres,
                   resp, stages, dlog, nreq>>

\* the loop ends, the lock is left, check returns at line 110
RExit(w) ==
    /\ pc[w] = "r_evict"
    /\ ~OverCapacity(rstore, config.policy_store_max_keys)
    /\ rlock' = Release(w)
    /\ ent' = [ent EXCEPT ![w] = NoItem]
    /\ now' = [now EXCEPT ![w] = 0]
    /\ pc' = [pc EXCEPT ![w] = "send"]
    /\ UNCHANGED <<config, hist, horizon, touched, racc, clock, dstore, dlock, rstore, req, dres, rres, resp,
                   stages, dlog, rlog, nreq>>

\* do_POST line 261: send_mailmux posts to the relay and blocks for its answer
Send(w) ==
    /\ pc[w] = "send"
    /\ stages' = [stages EXCEPT ![w] = Append(@, "upstream")]
    /\ pc' = [pc EXCEPT ![w] = "upstream"]
    /\ UNCHANGED <<config, hist, horizon, touched, racc, clock, dstore, dlock, rstore, rlock, req, now, ent,
                   dres, rres, resp, dlog, rlog, nreq>>

\* requests.post returns or raises, and do_POST answers
UpstreamReturn(w, u) ==
    /\ pc[w] = "upstream"
    /\ \E out \in {Classify(req[w], u) @@ [upstream |-> u]} :
          resp' = [resp EXCEPT ![w] = out]
    /\ pc' = [pc EXCEPT ![w] = AfterUpstream(u)]
    /\ UNCHANGED <<config, hist, horizon, touched, racc, clock, dstore, dlock, rstore, rlock, req, now, ent, dres,
                   rres, stages, dlog, rlog, nreq>>

\* the handler returns (lines 306-313) and the thread is free for the next request
Finish(w) ==
    /\ pc[w] = "done"
    /\ pc' = [pc EXCEPT ![w] = "idle"]
    /\ req' = [req EXCEPT ![w] = NoReq]
    /\ resp' = [resp EXCEPT ![w] = NoResp]
    /\ dres' = [dres EXCEPT ![w] = NoResult]
    /\ rres' = [rres EXCEPT ![w] = NoResult]
    /\ stages' = [stages EXCEPT ![w] = <<>>]
    /\ touched' = [touched EXCEPT ![w] = NoWrites]
    /\ UNCHANGED <<config, hist, horizon, racc, clock, dstore, dlock, rstore, rlock, now, ent, dlog, rlog,
                   nreq>>

Serve(w) ==
    \/ DEnter(w) \/ DUpdate(w) \/ DEvict(w) \/ DExit(w)
    \/ RStart(w) \/ REnter(w) \/ RUpdate(w) \/ REvict(w) \/ RExit(w)
    \/ Send(w)
    \/ Finish(w)

Next ==
    \/ \E w \in Workers : \E r \in FlowRequests : nreq < MaxReq /\ Receive(w, r)
    \/ \E w \in Workers : Serve(w)
    \/ \E w \in Workers : \E u \in FlowResults : UpstreamReturn(w, u)

Spec == Init /\ [][Next]_vars

\* one worker, every shape of request, every auth mode, every upstream result
NextGate ==
    \/ \E r \in GateRequests : nreq < MaxGateReq /\ Receive("w1", r)
    \/ Serve("w1")
    \/ \E u \in UpstreamResults : UpstreamReturn("w1", u)

SpecGate == InitGate /\ [][NextGate]_vars

\* one worker, the stores' checks recorded in dlog and rlog
NextLog ==
    \/ \E r \in LogRequests : nreq < MaxSeqReq /\ Receive("w1", r)
    \/ Serve("w1")
    \/ \E u \in FlowResults : UpstreamReturn("w1", u)

SpecLog == InitLog /\ [][NextLog]_vars

\* one worker, enough requests to fill the stores, refresh a key and evict
NextLru ==
    \/ \E r \in LruRequests : nreq < MaxLruReq /\ Receive("w1", r)
    \/ Serve("w1")
    \/ UpstreamReturn("w1", [kind |-> "status", status |-> 200])

SpecLru == InitLru /\ [][NextLru]_vars

\* the clock runs one tick longer: a check can come a whole second after a
\* denial that came inside a second
InitRetry ==
    InitAt({TheConfig("both", 1, n) : n \in {MaxKeys, MaxKeys + 1}}, TRUE, MaxTime + 1)

\* two rate keys, one of them shared by two alerts
RetryRequests == {Good(a) : a \in {AlertA1, AlertA2, AlertB}}

\* one worker: a denial, checks of other keys, and the next check of the key
NextRetry ==
    \/ \E r \in RetryRequests : nreq < MaxLruReq /\ Receive("w1", r)
    \/ Serve("w1")
    \/ UpstreamReturn("w1", [kind |-> "status", status |-> 200])

SpecRetry == InitRetry /\ [][NextRetry]_vars

\* two workers, a store disabled
SpecOff == InitOff /\ [][Next]_vars

\* two alerts that share no key
FairRequests == {Good(AlertA1), Good(AlertB)}

NextFair ==
    \/ \E w \in Workers : \E r \in FairRequests : nreq < MaxReq /\ Receive(w, r)
    \/ \E w \in Workers : Serve(w)
    \/ \E w \in Workers : \E u \in FlowResults : UpstreamReturn(w, u)

\* every thread that can take a step of its request is scheduled in the end,
\* and requests.post returns or raises within its timeout
Fairness ==
    \A w \in Workers :
        /\ WF_vars(Serve(w))
        /\ WF_vars(\E u \in FlowResults : UpstreamReturn(w, u))

SpecFair == InitWith({"both"}, {1}, MaxKeys, FALSE) /\ [][NextFair]_vars /\ Fairness

(***************************************************************************)
(* The keys of two alerts, computed as do_POST computes them at lines 210  *)
(* and 234: dedupe_key(payload_json) and rate_limit_key(payload_json).     *)
(***************************************************************************)
KeyAlerts ==
    {[Alert(sv, rs) EXCEPT !.environment = en, !.error_code = ec, !.summary = sm] :
        sv \in {<<"s">>, <<"S", " ">>, <<"t">>},
        rs \in {<<"r", "1">>, <<" ", "R", "1">>},
        en \in {<<"p">>, <<" ", "P">>},
        ec \in {<<"E">>, <<"e">>},
        sm \in {<<"d", "b", " ", "d", "o", "w", "n">>,
                <<" ", "d", "b", " ", " ", "d", "o", "w", "n", " ">>,
                <<"D", "b", " ", "d", "o", "w", "n">>}}

InitKeys ==
    /\ hist = FALSE
    /\ horizon = MaxTime
    /\ config = TheConfig("both", RateLimitMax, MaxKeys)
    /\ clock = 0
    /\ dstore = <<>> /\ dlock = NoWorker
    /\ rstore = <<>> /\ rlock = NoWorker
    /\ pc = [w \in Workers |-> "keys"]
    /\ req \in [Workers -> {Good(a) : a \in KeyAlerts}]
    /\ now = [w \in Workers |-> 0]
    /\ ent = [w \in Workers |-> NoItem]
    /\ dres = [w \in Workers |-> NoResult]
    /\ rres = [w \in Workers |-> NoResult]
    /\ resp = [w \in Workers |-> NoResp]
    /\ stages = [w \in Workers |-> <<>>]
    /\ touched = [w \in Workers |-> NoWrites]
    /\ racc = NoFields
    /\ dlog = <<>> /\ rlog = <<>>
    /\ nreq = 0

ComputeKeys(w) ==
    /\ pc[w] = "keys"
    /\ dres' = [dres EXCEPT ![w] =
                  [deduped |-> FALSE, dedupe_key |-> dedupe_key(req[w].payload)]]
    /\ rres' = [rres EXCEPT ![w] =
                  [rate_limited |-> FALSE, key |-> rate_limit_key(req[w].payload)]]
    /\ pc' = [pc EXCEPT ![w] = "keyed"]
    /\ UNCHANGED <<config, hist, horizon, touched, racc, clock, dstore, dlock, rstore, rlock, req, now,
                   ent, resp, stages, dlog, rlog, nreq>>

NextKeys == \E w \in Workers : ComputeKeys(w)

SpecKeys == InitKeys /\ [][NextKeys]_vars

(***************************************************************************)
(* The properties.                                                         *)
(***************************************************************************)
Ran(w, stage) == \E i \in DOMAIN stages[w] : stages[w][i] = stage

Position(w, stage) == CHOOSE i \in DOMAIN stages[w] : stages[w][i] = stage

Busy(w) == pc[w] # "idle"

Answered(w, status, code) ==
    /\ resp[w].kind = "error"
    /\ resp[w].status = status
    /\ resp[w].code = code

\* C1: whenever no caller holds a store's lock, the DedupeStore map and the
\* RateLimiter map each hold at most max_keys entries.
C1_StoresWithinMaxKeys ==
    /\ dlock = NoWorker => Len(dstore) <= config.policy_store_max_keys
    /\ rlock = NoWorker => Len(rstore) <= config.policy_store_max_keys

\* both stores are full and unlocked after a request has evicted from each
C1_EvictedToCapacity ==
    /\ dlock = NoWorker /\ Len(dstore) = config.policy_store_max_keys
    /\ rlock = NoWorker /\ Len(rstore) = config.policy_store_max_keys
    /\ \E w \in Workers : touched[w].d >= 2 /\ touched[w].r >= 2

\* C2: for a POST to /v1/alerts with an application/json content type whose
\* credentials fail, the answer is 401 AUTH_INVALID and the authentication
\* stage is the last one run, whatever the body is: the body is neither read
\* nor decoded nor validated.
C2_AuthBeforeBody ==
    \A w \in Workers :
        (/\ Busy(w)
         /\ req[w].path = "/v1/alerts"
         /\ StartsWith(Lower(req[w].ctype), ExpectedJson)
         /\ ~_auth_ok(req[w], config.auth_mode))
        => /\ pc[w] = "done"
           /\ Answered(w, 401, "AUTH_INVALID")
           /\ stages[w] = <<"path", "ctype", "auth">>

\* a 401 for a request whose body is too large, and whose payload fails the schema
C2_Rejected401BadBody ==
    \E w \in Workers :
        /\ Answered(w, 401, "AUTH_INVALID")
        /\ \/ _read_body(req[w]).err = "too_large"
           \/ ~validate_alert(req[w].payload)

\* C3: deduplication precedes rate limiting, and a request that ends in DEDUPED
\* has made no write to the RateLimiter store and has not entered its check.
C3_DedupedLeavesRateLimiter ==
    \A w \in Workers :
        /\ Ran(w, "rate") => Ran(w, "dedupe") /\ Position(w, "dedupe") < Position(w, "rate")
        /\ Answered(w, 409, "DEDUPED")
            => /\ pc[w] = "done"
               /\ touched[w].r = 0
               /\ ~Ran(w, "rate")

\* a duplicate is suppressed while the RateLimiter store holds the key's count
C3_DedupedWithCount ==
    \E w \in Workers :
        /\ Answered(w, 409, "DEDUPED")
        /\ Has(rstore, rate_limit_key(req[w].payload))
        /\ touched[w].d = 1

Rejections == {415, 401, 413, 400, 409, 429}

\* C4: once a stage rejects a request (415, 401, 413, 400, 409, 429) the request
\* is over and no later stage runs; the upstream client is called only for a
\* request that passed authentication, validation and both stores' checks; no
\* store is checked for a request rejected by authentication or validation.
C4_ShortCircuit ==
    \A w \in Workers :
        /\ (resp[w].kind = "error" /\ resp[w].status \in Rejections)
            => /\ pc[w] = "done"
               /\ ~Ran(w, "upstream")
        /\ (resp[w].kind = "error" /\ resp[w].status \in {415, 401, 413, 400})
            => /\ ~Ran(w, "dedupe") /\ ~Ran(w, "rate")
               /\ touched[w] = NoWrites
        /\ Answered(w, 429, "RATE_LIMITED") => stages[w][Len(stages[w])] = "rate"
        /\ Ran(w, "upstream")
            => /\ _auth_ok(req[w], config.auth_mode)
               /\ _read_body(req[w]).err = ""
               /\ req[w].text = "json"
               /\ validate_alert(req[w].payload)
               /\ touched[w].d >= 1 /\ ~dres[w].deduped
               /\ touched[w].r >= 1 /\ ~rres[w].rate_limited

\* a request rejected by the rate limiter after it passed every earlier stage
C4_RateLimitedAtLast ==
    \E w \in Workers :
        /\ Answered(w, 429, "RATE_LIMITED")
        /\ touched[w].d >= 1 /\ touched[w].r = 1

Largest(S) == CHOOSE i \in S : \A j \in S : j <= i

Checks(log) == {j \in DOMAIN log : log[j].res # Evicted}

\* the latest entry before j that set or removed the item of j's key, or 0
LastStamp(log, j) ==
    LET S == {i \in 1..(j - 1) : log[i].k = log[j].k /\ log[i].res \in {Accepted, Evicted}}
    IN IF S = {} THEN 0 ELSE Largest(S)

TwoXX(u) == u.kind = "status" /\ u.status \in 200..299

\* C5: with a non-zero dedupe window, a check of k within the window of the
\* Accepted check of k before it returns Deduped, and a check once that window
\* has elapsed returns Accepted; a request whose check returned Deduped gets 409
\* DEDUPED with X-Dedupe-Window-Seconds equal to the configured window, after an
\* Accepted check of the same key within the window; a request whose checks
\* were Accepted and whose upstream call returned 2xx gets 202 DELIVERED.
C5_DedupeWindow ==
    /\ config.dedupe_window_seconds > 0
    /\ \A j \in Checks(dlog) :
          LET i == LastStamp(dlog, j)
          IN (i # 0 /\ dlog[i].res = Accepted)
             => IF dlog[j].t - dlog[i].t < Ticks(config.dedupe_window_seconds)
                THEN dlog[j].res = Deduped
                ELSE dlog[j].res = Accepted
    /\ \A w \in {"w1"} :
          (pc[w] = "done" /\ Ran(w, "dedupe"))
          => LET j == Largest(Checks(dlog))
                 i == LastStamp(dlog, j)
             IN /\ dlog[j].k = dedupe_key(req[w].payload)
                /\ dres[w].deduped <=> dlog[j].res = Deduped
                /\ dres[w].deduped <=> Answered(w, 409, "DEDUPED")
                /\ dres[w].deduped
                   => /\ resp[w].headers["X-Dedupe-Window-Seconds"]
                            = config.dedupe_window_seconds
                      /\ i # 0 /\ dlog[i].res = Accepted
                      /\ dlog[j].t - dlog[i].t < Ticks(config.dedupe_window_seconds)
                /\ (Ran(w, "upstream") /\ TwoXX(resp[w].upstream))
                   => /\ resp[w].kind = "success" /\ resp[w].status = 202
                      /\ resp[w].result = "DELIVERED"
                      /\ dlog[j].res = Accepted

\* the same alert three times: Accepted, Deduped within the window, Accepted
\* once it has elapsed, and the third request delivered
C5_AcceptedDedupedAccepted ==
    /\ Len(dlog) = 3
    /\ dlog[1].k = dlog[2].k /\ dlog[2].k = dlog[3].k
    /\ dlog[1].res = Accepted /\ dlog[2].res = Deduped /\ dlog[3].res = Accepted
    /\ pc["w1"] = "done" /\ resp["w1"].kind = "success"

RECURSIVE WindowOf(_, _)
\* the check that started the window of check j: j itself when the key was not
\* in the store or the window before had elapsed
WindowOf(log, j) ==
    LET P == {i \in 1..(j - 1) : log[i].k = log[j].k}
    IN IF P = {} \/ log[Largest(P)].res = Evicted THEN j
       ELSE LET s == WindowOf(log, Largest(P))
            IN IF log[j].t - log[s].t >= Ticks(config.rate_limit_window_seconds)
               THEN j ELSE s

\* the number of checks of j's key in its window, j included
Rank(log, j) ==
    Cardinality({i \in WindowOf(log, j)..j : log[i].k = log[j].k /\ log[i].res # Evicted})

\* of the checks of a key in one window the first max are Accepted and the later
\* ones RateLimited; at pipeline level the Accepted ones reach the upstream
\* client and the RateLimited ones get 429 with X-RateLimit-Remaining 0
RateWindow ==
    /\ config.rate_limit_max > 0
    /\ \A j \in Checks(rlog) :
          IF Rank(rlog, j) <= config.rate_limit_max
          THEN rlog[j].res = Accepted
          ELSE rlog[j].res = RateLimited
    /\ \A w \in {"w1"} :
          (pc[w] = "done" /\ touched[w].r >= 1)
          => LET j == Largest(Checks(rlog))
             IN /\ rlog[j].out = rres[w]
                /\ rres[w].rate_limited <=> Answered(w, 429, "RATE_LIMITED")
                /\ rres[w].rate_limited
                   => /\ resp[w].headers["X-RateLimit-Remaining"] = 0
                      /\ ~Ran(w, "upstream")
                /\ ~rres[w].rate_limited => Ran(w, "upstream")

AcceptedBefore(w) ==
    LET key == rate_limit_key(req[w].payload)
    IN IF Has(rstore, key) /\ key \in DOMAIN racc
          /\ now[w] - Get(rstore, key).v.start < Ticks(config.rate_limit_window_seconds)
       THEN racc[key] ELSE 0

CountsAreAccepted ==
    \A i \in DOMAIN rstore :
        /\ rstore[i].k \in DOMAIN racc
        /\ rstore[i].v.count = racc[rstore[i].k]
        /\ rstore[i].v.count \in 1..config.rate_limit_max

DeniedOnlyAtMax ==
    \A w \in Workers :
        (pc[w] = "r_update" /\ pc'[w] # "r_update")
        => (rres'[w].rate_limited <=> AcceptedBefore(w) >= config.rate_limit_max)

\* C7: under concurrent callers no increment is lost: the stored count of a key
\* is the number of Accepted checks since its window started, it never exceeds
\* max, and a check is denied exactly when max checks of the window were
\* Accepted before it, so of N checks in a window min(N, max) are Accepted.
C7_AtomicIncrement == []CountsAreAccepted /\ [][DeniedOnlyAtMax]_vars

\* two workers checking the same key at once: one holds the lock and has brought
\* the count to max, the other has read the clock and waits for the lock
C7_ConcurrentAtMax ==
    /\ pc["w1"] = "r_lock" /\ pc["w2"] = "r_evict"
    /\ rate_limit_key(req["w1"].payload) = rate_limit_key(req["w2"].payload)
    /\ Get(rstore, rate_limit_key(req["w2"].payload)).v.count = config.rate_limit_max
    /\ AcceptedBefore("w1") = config.rate_limit_max

ValidTokenHeaders == {BearerT1, BearerLowerT2}

TokenValid(r) == r.auth \in ValidTokenHeaders

SecretValid(r) == r.secret = AuthSharedSecret

TruthTable(r, auth_mode) ==
    CASE auth_mode = "token" -> TokenValid(r)
      [] auth_mode = "secret" -> SecretValid(r)
      [] auth_mode = "either" -> TokenValid(r) \/ SecretValid(r)
      [] auth_mode = "both" -> TokenValid(r) /\ SecretValid(r)

\* C8: for every combination of presented credentials a request that reaches
\* authentication passes it exactly when the mode's truth table over
\* token_valid and secret_valid says so, and is answered 401 otherwise; in mode
\* both a single valid credential is rejected.
C8_AuthTruthTable ==
    \A w \in Workers :
        (Busy(w) /\ Ran(w, "ctype") /\ Len(stages[w]) > 2)
        => /\ stages[w][3] = "auth"
           /\ TruthTable(req[w], config.auth_mode) <=> Len(stages[w]) > 3
           /\ ~TruthTable(req[w], config.auth_mode) <=> Answered(w, 401, "AUTH_INVALID")

\* mode both, a valid token alone: rejected
C8_BothRejectsSingle ==
    \E w \in Workers :
        /\ config.auth_mode = "both"
        /\ Answered(w, 401, "AUTH_INVALID")
        /\ TokenValid(req[w]) /\ ~SecretValid(req[w])

\* C9: the result of the upstream call gets exactly one outcome: a timeout
\* 504 MAILMUX_TIMEOUT, another transport failure 502 MAILMUX_FAILED, a non-2xx
\* status 502 MAILMUX_FAILED carrying the status, a 2xx status 202 DELIVERED
\* carrying the status.
C9_UpstreamOutcome ==
    \A w \in Workers :
        (pc[w] = "done" /\ Ran(w, "upstream"))
        => LET u == resp[w].upstream
           IN CASE u.kind = "timeout" -> Answered(w, 504, "MAILMUX_TIMEOUT")
                [] u.kind = "error" -> Answered(w, 502, "MAILMUX_FAILED")
                [] TwoXX(u) ->
                     /\ resp[w].kind = "success" /\ resp[w].status = 202
                     /\ resp[w].result = "DELIVERED" /\ resp[w].mailmux = u.status
                [] OTHER ->
                     /\ Answered(w, 502, "MAILMUX_FAILED")
                     /\ resp[w].details.upstream_status = u.status

\* the relay answered 300: 502 carrying 300
C9_Status300Failed ==
    \E w \in Workers :
        /\ pc[w] = "done" /\ Ran(w, "upstream")
        /\ resp[w].upstream = [kind |-> "status", status |-> 300]
        /\ Answered(w, 502, "MAILMUX_FAILED")

Times(w, stage) == Cardinality({i \in DOMAIN stages[w] : stages[w][i] = stage})

\* C10: for each request the upstream client is called at most once and each
\* store's check at most once, and the request is over once the upstream call
\* has returned, whatever its result.
C10_NoRetry ==
    \A w \in Workers :
        /\ Times(w, "upstream") <= 1
        /\ Times(w, "dedupe") <= 1
        /\ Times(w, "rate") <= 1
        /\ "upstream" \in DOMAIN resp[w] => pc[w] = "done"

\* a request over after its one upstream call timed out
C10_TimedOutOnce ==
    \E w \in Workers :
        /\ pc[w] = "done"
        /\ Times(w, "upstream") = 1
        /\ resp[w].upstream.kind = "timeout"
        /\ Answered(w, 504, "MAILMUX_TIMEOUT")

InUpstreamCall(w) == pc[w] = "upstream"

\* C11: a worker inside the upstream call holds neither the DedupeStore lock
\* nor the RateLimiter lock, so a worker waiting for a store's lock while the
\* other is inside the upstream call finds the lock free.
C11_UpstreamOutsideLocks ==
    \A w \in Workers :
        InUpstreamCall(w)
        => /\ dlock # w /\ rlock # w
           /\ \A v \in Workers \ {w} :
                 /\ pc[v] = "d_lock" => LockFree(dlock)
                 /\ pc[v] = "r_lock" => LockFree(rlock)

\* one worker inside the upstream call while the other holds the RateLimiter
\* lock for the same rate key
C11_CheckDuringUpstream ==
    /\ InUpstreamCall("w1")
    /\ pc["w2"] = "r_update" /\ rlock = "w2"
    /\ rate_limit_key(req["w1"].payload) = rate_limit_key(req["w2"].payload)

\* the status, type and code of every taxonomy entry
Taxonomy ==
    {<<415, "VALIDATION", "UNSUPPORTED_MEDIA_TYPE">>, <<401, "AUTH", "AUTH_INVALID">>,
     <<413, "VALIDATION", "PAYLOAD_TOO_LARGE">>, <<400, "VALIDATION", "JSON_INVALID">>,
     <<400, "VALIDATION", "SCHEMA_INVALID">>, <<409, "POLICY", "DEDUPED">>,
     <<429, "POLICY", "RATE_LIMITED">>, <<504, "UPSTREAM", "MAILMUX_TIMEOUT">>,
     <<502, "UPSTREAM", "MAILMUX_FAILED">>, <<500, "INTERNAL", "INTERNAL">>}

Mapped(w) ==
    \/ resp[w].kind = "success" /\ resp[w].status = 202 /\ resp[w].result = "DELIVERED"
    \/ resp[w].kind = "error"
       /\ <<resp[w].status, resp[w].type, resp[w].code>> \in Taxonomy

\* the body's bytes were read and are not UTF-8: decode raises inside do_POST
Faulted(w) == Ran(w, "json") /\ req[w].text = "bad_utf8"

OneOutcome(w) ==
    /\ resp[w].kind # "none" <=> pc[w] = "done"
    /\ Faulted(w) => Answered(w, 500, "INTERNAL")

\* C12 as stated: every inbound POST gets exactly one outcome, mapped to one
\* taxonomy entry or success, and a fault yields 500 INTERNAL.
C12_EveryPostMapped ==
    \A w \in Workers :
        /\ OneOutcome(w)
        /\ pc[w] = "done" => Mapped(w)

\* C12: every inbound POST gets exactly one outcome; for a POST to /v1/alerts
\* it is mapped to exactly one taxonomy entry or is the success, an unexpected
\* fault yielding 500 INTERNAL; a POST to another path gets a bare 404.
C12_AlertPostMapped ==
    \A w \in Workers :
        /\ OneOutcome(w)
        /\ pc[w] = "done"
           => IF req[w].path = "/v1/alerts" THEN Mapped(w)
              ELSE resp[w] = BareResp(404)

\* a fault (a body that is not UTF-8) answered 500 INTERNAL
C12_FaultMappedInternal ==
    \E w \in Workers : pc[w] = "done" /\ Faulted(w) /\ Answered(w, 500, "INTERNAL")

\* the id the service is to echo: the inbound header's, or a generated one
CorrelationId(r) == IF r.rid \in {None, <<>>} THEN GeneratedId ELSE r.rid

\* C13: every response to a POST carries the request correlation id, the
\* inbound header's or a generated one, the response for an unknown path and
\* the 500 INTERNAL included.
C13_IdOnEveryResponse ==
    \A w \in Workers :
        pc[w] = "done"
        => /\ "X-Request-Id" \in DOMAIN resp[w].headers
           /\ resp[w].headers["X-Request-Id"] = CorrelationId(req[w])

TimedOut(w) == pc[w] = "done" /\ Ran(w, "upstream") /\ resp[w].upstream.kind = "timeout"

Core(s) ==
    LET N == {i \in DOMAIN s : ~IsSpace(s[i])}
    IN IF N = {} THEN <<>>
       ELSE SubSeq(s, CHOOSE i \in N : \A j \in N : i <= j, Largest(N))

Fold(s) == [i \in DOMAIN s |-> LowerChar(s[i])]

\* x and y differ only in letter case or surrounding whitespace
SameUpToCase(x, y) == Fold(Core(x)) = Fold(Core(y))

SameIncident(a, b) ==
    /\ \A f \in {"service", "environment", "error_code", "resource"} :
          SameUpToCase(a[f], b[f])
    /\ Split(a.summary) = Split(b.summary)

SameRateGroup(a, b) ==
    \A f \in {"service", "error_code"} : SameUpToCase(a[f], b[f])

\* C15: two alerts whose service, environment, error_code and resource differ
\* only in letter case or surrounding whitespace and whose summaries are equal
\* after whitespace normalization get the same dedupe key; two alerts whose
\* service and error_code differ only in letter case or surrounding whitespace
\* get the same rate key.
C15_KeysNormalized ==
    \A w, v \in Workers :
        (pc[w] = "keyed" /\ pc[v] = "keyed")
        => /\ SameIncident(req[w].payload, req[v].payload)
              => dres[w].dedupe_key = dres[v].dedupe_key
           /\ SameRateGroup(req[w].payload, req[v].payload)
              => rres[w].key = rres[v].key

\* two different alerts of the same incident, their keys computed
C15_SameIncidentKeyed ==
    /\ pc["w1"] = "keyed" /\ pc["w2"] = "keyed"
    /\ req["w1"].payload # req["w2"].payload
    /\ req["w1"].payload.service # req["w2"].payload.service
    /\ req["w1"].payload.summary # req["w2"].payload.summary
    /\ SameIncident(req["w1"].payload, req["w2"].payload)

\* the whole seconds in a number of ticks, rounded down
FloorSeconds(ticks) ==
    CHOOSE n \in -(MaxTime + Ticks(DedupeWindowSeconds + RateLimitWindowSeconds))
                 ..(MaxTime + Ticks(DedupeWindowSeconds + RateLimitWindowSeconds)) :
        n * TicksPerSecond <= ticks /\ ticks < (n + 1) * TicksPerSecond

\* the items of the other keys, in their order
Others(store, key) == SelectSeq(store, LAMBDA e : e.k # key)

Last(store) == store[Len(store)]

\* w's check is about to find its key present and within the window
DedupeHit(w) ==
    LET key == dedupe_key(req[w].payload)
    IN /\ pc[w] = "d_update"
       /\ Has(dstore, key)
       /\ now[w] - Get(dstore, key).v < Ticks(config.dedupe_window_seconds)

DedupeHitEffect(w) ==
    LET key == dedupe_key(req[w].payload)
        ts == Get(dstore, key).v
    IN /\ dres'[w].deduped
       /\ dres'[w].retry_after
            = FloorSeconds(Ticks(config.dedupe_window_seconds) - (now[w] - ts))
       /\ dres'[w].retry_after >= 0
       /\ Last(dstore') = [k |-> key, v |-> ts]
       /\ Others(dstore', key) = Others(dstore, key)
       /\ Len(dstore') = Len(dstore)

\* C16: a DedupeStore.check that finds the key present and within the window
\* returns Deduped with retryAfter = floor(window - elapsed), never negative,
\* moves the key to most-recently-used, and leaves every stored timestamp and
\* the set of keys unchanged.
C16_DedupedHit ==
    [][\A w \in {"w1"} : (DedupeHit(w) /\ pc'[w] # pc[w]) => DedupeHitEffect(w)]_vars

\* after a hit the most-recently-used key carries an older timestamp than the
\* key before it, and the 409 says to retry after 0 whole seconds
C16_HitMovedNotStamped ==
    /\ Answered("w1", 409, "DEDUPED")
    /\ dres["w1"].retry_after = 0
    /\ Len(dstore) = 2
    /\ dstore[2].k = dedupe_key(req["w1"].payload)
    /\ dstore[2].v < dstore[1].v

\* w's check is about to find its key present, within its window and at max
RateDenial(w) ==
    LET key == rate_limit_key(req[w].payload)
    IN /\ pc[w] = "r_update"
       /\ Has(rstore, key)
       /\ now[w] - Get(rstore, key).v.start < Ticks(config.rate_limit_window_seconds)
       /\ Get(rstore, key).v.count >= config.rate_limit_max

\* what a denial returns, with resetAt as given by reset_at, and what it
\* does to the store
RateDenialEffect(w, reset_at) ==
    LET key == rate_limit_key(req[w].payload)
        e == Get(rstore, key).v
        end == e.start + Ticks(config.rate_limit_window_seconds)
    IN /\ rres'[w].rate_limited
       /\ rres'[w].retry_after = Max(0, FloorSeconds(end - now[w]))
       /\ rres'[w].reset_at = reset_at
       /\ Last(rstore') = [k |-> key, v |-> e]
       /\ Others(rstore', key) = Others(rstore, key)
       /\ Len(rstore') = Len(rstore)

Keys(store) == {store[i].k : i \in DOMAIN store}

\* the latest record of key in log with a result in results, or 0
LatestOf(log, key, results) ==
    LET S == {i \in DOMAIN log : log[i].k = key /\ log[i].res \in results}
    IN IF S = {} THEN 0 ELSE Largest(S)

\* C18 as stated: immediately after any check (Accepted or Deduped) the stored
\* last-seen timestamp of key is the time of that check.
C18_StampedByEveryCheck ==
    (dlog # <<>> /\ Last(dlog).res # Evicted)
    => /\ Has(dstore, Last(dlog).k)
       /\ Get(dstore, Last(dlog).k).v = Last(dlog).t

\* every checked key is stored with the time of its latest Accepted check,
\* unless it was evicted after its latest check
StampedByAccepted ==
    /\ config.dedupe_window_seconds > 0
    /\ Keys(dstore) \subseteq Keys(dlog)
    /\ \A key \in Keys(dlog) :
          LET j == LatestOf(dlog, key, {Accepted, Deduped, Evicted})
              a == LatestOf(dlog, key, {Accepted})
          IN IF dlog[j].res = Evicted
             THEN ~Has(dstore, key)
             ELSE /\ Has(dstore, key)
                  /\ a # 0
                  /\ Get(dstore, key).v = dlog[a].t

\* a step that removes a key removes the least-recently-used one from a store
\* holding more than max_keys
RemovedByEviction ==
    Keys(dstore) \ Keys(dstore') # {}
    => /\ Len(dstore) > config.policy_store_max_keys
       /\ Keys(dstore) \ Keys(dstore') = {dstore[1].k}

\* C18: every DedupeStore.check(key) with a non-zero window leaves key in the
\* store: an Accepted check creates the entry or sets its timestamp to the
\* time of that check, a Deduped check leaves the timestamp of the Accepted
\* check before it; entries are removed only by capacity eviction.
C18_StampedByAcceptedCheck ==
    []StampedByAccepted /\ [][RemovedByEviction]_vars

\* a suppressed duplicate checked later than the time its key is stored with
C18_DedupedAfterStamp ==
    /\ Answered("w1", 409, "DEDUPED")
    /\ Last(dlog).res = Deduped
    /\ Last(dlog).k = dres["w1"].dedupe_key
    /\ Last(dlog).t > Get(dstore, Last(dlog).k).v

CheckResults == {Accepted, Deduped, RateLimited}

\* the position of key's latest check in log, or 0
LatestCheck(log, key) == LatestOf(log, key, CheckResults)

\* the store holds its keys from the least to the most recently checked, the
\* key of the latest check last
RecencyOrder(store, log) ==
    /\ \A i, j \in DOMAIN store :
          i < j => LatestCheck(log, store[i].k) < LatestCheck(log, store[j].k)
    /\ Checks(log) # {}
       => /\ store # <<>>
          /\ Last(store).k = log[Largest(Checks(log))].k

\* a step from store to after that removes keys removes one, from a store
\* above max_keys: the least recently checked, not the key just checked
EvictsLeastRecent(store, after, log) ==
    Keys(store) \ Keys(after) # {}
    => \E r \in Keys(store) :
          /\ Keys(store) \ Keys(after) = {r}
          /\ Len(store) > config.policy_store_max_keys
          /\ \A k \in Keys(store) \ {r} : LatestCheck(log, r) < LatestCheck(log, k)
          /\ r # log[Largest(Checks(log))].k
          /\ Others(after, r) = Others(store, r)

\* C19: in both stores recency is refreshed on every check, including denied
\* hits: after an enabled store's check(k) with max_keys >= 1, k is present and
\* is the most-recently-used entry, and when an insertion takes the map over
\* max_keys the entries evicted are exactly the least-recently-checked ones,
\* never the key just checked.
C19_RecencyOnEveryCheck ==
    /\ [](config.policy_store_max_keys >= 1
          /\ RecencyOrder(dstore, dlog) /\ RecencyOrder(rstore, rlog))
    /\ [][EvictsLeastRecent(dstore, dstore', dlog)
          /\ EvictsLeastRecent(rstore, rstore', rlog)]_vars

\* the first rate key ever stored was denied after a second key came in, and
\* the insertion of a third key then evicted the second, not the first
C19_DeniedKeyOutlivesOther ==
    /\ pc["w1"] = "done"
    /\ \E i, j \in DOMAIN rlog :
          /\ i < j
          /\ rlog[i].res = RateLimited
          /\ rlog[i].k = rlog[1].k
          /\ rlog[j].res = Evicted
          /\ rlog[j].k # rlog[i].k
          /\ Has(rstore, rlog[i].k)
          /\ ~Has(rstore, rlog[j].k)

\* the step is the body of w's RateLimiter.check of key
Checking(w, key) ==
    /\ pc[w] = "r_update"
    /\ pc'[w] # pc[w]
    /\ rate_limit_key(req[w].payload) = key

\* the step starts a window of key at the time of w's check, and accepts
StartsWindow(w, key) ==
    /\ Checking(w, key)
    /\ Get(rstore', key).v = [start |-> now[w], count |-> 1]
    /\ ~rres'[w].rate_limited

\* what a step does to the windowStart of every key it leaves in the store
FixedWindow ==
    \A key \in Keys(rstore') :
        IF ~Has(rstore, key)
        THEN \E w \in Workers : StartsWindow(w, key)
        ELSE LET old == Get(rstore, key).v
                 new == Get(rstore', key).v
                 window == Ticks(config.rate_limit_window_seconds)
             IN /\ new.start # old.start
                   => \E w \in Workers :
                         StartsWindow(w, key) /\ now[w] - old.start >= window
                /\ \A w \in Workers :
                      Checking(w, key)
                      => IF now[w] - old.start >= window
                         THEN StartsWindow(w, key)
                         ELSE /\ new.start = old.start
                              /\ IF rres'[w].rate_limited
                                 THEN new.count = old.count
                                 ELSE new.count = old.count + 1

\* C20: the rate window is fixed, not sliding: a key's windowStart is written
\* only when the key is first inserted or when a check finds
\* now - windowStart >= windowSeconds (which resets the entry to (now, count=1)
\* and returns Accepted); accepted increments and rejections within the window
\* never change windowStart, and a check at exactly windowStart + windowSeconds
\* starts a new window.
C20_FixedWindow == [][FixedWindow]_vars

\* a key checked at the start of its window, inside it, and again exactly
\* windowSeconds after the start: the last check was accepted into a new window
C20_NewWindowAtExactEnd ==
    /\ pc["w1"] = "done"
    /\ Len(rlog) = 3
    /\ \A j \in DOMAIN rlog : rlog[j].k = rlog[1].k
    /\ rlog[2].t > rlog[1].t
    /\ rlog[3].t = rlog[1].t + Ticks(config.rate_limit_window_seconds)
    /\ rlog[3].res = Accepted
    /\ Get(rstore, rlog[1].k).v = [start |-> rlog[3].t, count |-> 1]

\* w's check of the dedupe store has returned
DedupeChecked(w) == Ran(w, "dedupe") /\ pc[w] \in {"rate", "r_lock", "r_update", "r_evict",
                                                   "send", "upstream", "done"}

\* w's check of the rate limiter has returned
RateChecked(w) == Ran(w, "rate") /\ pc[w] \in {"send", "upstream", "done"}

\* C21: a disabled store never denies and is never touched: with dedupe
\* window = 0 every DedupeStore.check returns Accepted and the dedupe map stays
\* empty, and with max-per-window = 0 every RateLimiter.check returns Accepted
\* and the rate map stays empty, after any sequence of checks.
C21_DisabledStoreUntouched ==
    /\ config.dedupe_window_seconds = 0
       => /\ dstore = <<>> /\ dlock = NoWorker
          /\ \A w \in Workers :
                /\ touched[w].d = 0
                /\ pc[w] \notin {"d_lock", "d_update", "d_evict"}
                /\ DedupeChecked(w) => ~dres[w].deduped
                /\ ~Answered(w, 409, "DEDUPED")
    /\ config.rate_limit_max = 0
       => /\ rstore = <<>> /\ rlock = NoWorker
          /\ \A w \in Workers :
                /\ touched[w].r = 0
                /\ pc[w] \notin {"r_lock", "r_update", "r_evict"}
                /\ RateChecked(w) => ~rres[w].rate_limited
                /\ ~Answered(w, 429, "RATE_LIMITED")

\* with both stores disabled, the same alert has passed both checks twice and
\* was delivered twice
C21_DuplicateDeliveredTwice ==
    /\ config.dedupe_window_seconds = 0 /\ config.rate_limit_max = 0
    /\ req["w1"] = req["w2"]
    /\ \A w \in Workers :
          /\ pc[w] = "done"
          /\ DedupeChecked(w) /\ RateChecked(w)
          /\ resp[w].kind = "success" /\ resp[w].status = 202
    /\ dstore = <<>> /\ rstore = <<>>

\* w's request passed authentication and failed in the body-size and
\* JSON-decode stage
BodyStageFailed(w) ==
    /\ pc[w] = "done"
    /\ Ran(w, "body")
    /\ ~Ran(w, "schema")

\* the body read is over the limit, by its Content-Length or by its bytes
Oversized(r) == _read_body(r).err = "too_large"

\* C22: for an authenticated request, every failure of the body-size and
\* JSON-decode stage is a terminal VALIDATION rejection: an oversized body
\* gives 413 PAYLOAD_TOO_LARGE and every body that cannot be decoded as JSON
\* (including an unparsable Content-Length or bytes that are not valid UTF-8)
\* gives 400 JSON_INVALID, never 500 INTERNAL, and no store is checked.
C22_BodyFailureIsValidation ==
    \A w \in Workers :
        BodyStageFailed(w)
        => /\ resp[w].kind = "error"
           /\ resp[w].type = "VALIDATION"
           /\ IF Oversized(req[w])
              THEN Answered(w, 413, "PAYLOAD_TOO_LARGE")
              ELSE Answered(w, 400, "JSON_INVALID")
           /\ ~Answered(w, 500, "INTERNAL")
           /\ touched[w] = NoWrites
           /\ ~Ran(w, "dedupe") /\ ~Ran(w, "rate")

\* every request received so far is still with its worker
AllInView == Cardinality({w \in Workers : pc[w] # "idle"}) = nreq

\* o's request has w's fingerprint and was not answered with a failure: it
\* was delivered, or is still on its way
MayHaveDelivered(o, w) ==
    /\ o # w
    /\ pc[o] # "idle"
    /\ dedupe_key(req[o].payload) = dedupe_key(req[w].payload)
    /\ pc[o] = "done" => resp[o].kind = "success" /\ resp[o].status = 202

\* C23: whenever the pipeline answers 409 DEDUPED for a fingerprint, an
\* earlier request with that fingerprint was actually delivered upstream
\* (2xx) within the dedupe window; equivalently, an alert whose first attempt
\* ended in RATE_LIMITED, MAILMUX_TIMEOUT or MAILMUX_FAILED is not suppressed
\* as a duplicate when it is sent again.
C23_DedupedOnlyAfterDelivery ==
    \A w \in Workers :
        (AllInView /\ pc[w] = "done" /\ Answered(w, 409, "DEDUPED"))
        => \E o \in Workers : MayHaveDelivered(o, w)

RECURSIVE FixedWindowOf(_, _)
\* the check that started the fixed window check j falls in, when no entry is
\* ever lost: j itself for the first check of the key or once the window
\* before has elapsed
FixedWindowOf(log, j) ==
    LET P == {i \in 1..(j - 1) : log[i].k = log[j].k /\ log[i].res # Evicted}
    IN IF P = {} THEN j
       ELSE LET s == FixedWindowOf(log, Largest(P))
            IN IF log[j].t - log[s].t >= Ticks(config.rate_limit_window_seconds)
               THEN j ELSE s

\* the Accepted checks of log
AcceptedChecks(log) == {j \in DOMAIN log : log[j].res = Accepted}

\* key was evicted between the checks i and j
EvictedBetween(log, i, j) ==
    \E e \in (i + 1)..(j - 1) : log[e].k = log[i].k /\ log[e].res = Evicted

\* C24 as stated: whatever other keys are checked in between, two checks of
\* the same dedupe key less than one window apart are never both Accepted,
\* and for any rate key and any one fixed window at most max checks are
\* Accepted.
C24_EvictionKeepsDenials ==
    /\ \A i, j \in AcceptedChecks(dlog) :
          (i < j /\ dlog[i].k = dlog[j].k)
          => dlog[j].t - dlog[i].t >= Ticks(config.dedupe_window_seconds)
    /\ \A j \in AcceptedChecks(rlog) :
          Cardinality({i \in AcceptedChecks(rlog) :
                          /\ rlog[i].k = rlog[j].k
                          /\ FixedWindowOf(rlog, i) = FixedWindowOf(rlog, j)})
              <= config.rate_limit_max

\* C24: two checks of the same dedupe key less than one window apart are never
\* both Accepted unless the key was evicted between them, and of the checks of
\* a rate key in one window, a window ending when its entry is evicted, at most
\* max are Accepted; capacity eviction removes the least-recently-used entry
\* whether or not its window is still active.
C24_DenialsUntilEvicted ==
    /\ \A i, j \in AcceptedChecks(dlog) :
          (i < j /\ dlog[i].k = dlog[j].k
           /\ dlog[j].t - dlog[i].t < Ticks(config.dedupe_window_seconds))
          => EvictedBetween(dlog, i, j)
    /\ \A j \in AcceptedChecks(rlog) :
          Cardinality({i \in AcceptedChecks(rlog) :
                          /\ rlog[i].k = rlog[j].k
                          /\ WindowOf(rlog, i) = WindowOf(rlog, j)})
              <= config.rate_limit_max
    /\ \A i, j \in AcceptedChecks(rlog) :
          (i < j /\ rlog[i].k = rlog[j].k
           /\ FixedWindowOf(rlog, i) = FixedWindowOf(rlog, j)
           /\ WindowOf(rlog, i) # WindowOf(rlog, j))
          => EvictedBetween(rlog, i, j)

\* an alert delivered, its fingerprint evicted by two others, and the same
\* alert accepted by the dedupe store again inside its window
C24_AcceptedAgainAfterEviction ==
    /\ pc["w1"] = "done"
    /\ \E i, j \in AcceptedChecks(dlog) :
          /\ i < j
          /\ dlog[i].k = dlog[j].k
          /\ dlog[j].t - dlog[i].t < Ticks(config.dedupe_window_seconds)
          /\ EvictedBetween(dlog, i, j)
          /\ dlog[j].k = dedupe_key(req["w1"].payload)
    /\ ~Answered("w1", 409, "DEDUPED")

\* the step is the body of w's DedupeStore.check and it denies
DedupeDenies(w) == pc[w] = "d_update" /\ pc'[w] # pc[w] /\ dres'[w].deduped

\* the step is the body of w's RateLimiter.check and it denies
RateDenies(w) == pc[w] = "r_update" /\ pc'[w] # pc[w] /\ rres'[w].rate_limited

\* what every denial tells the caller that sampled now[w]
DenialWithinWindow ==
    \A w \in Workers :
        /\ DedupeDenies(w)
           => /\ 0 <= dres'[w].retry_after
              /\ dres'[w].retry_after <= config.dedupe_window_seconds
        /\ RateDenies(w)
           => /\ 0 <= rres'[w].retry_after
              /\ rres'[w].retry_after <= config.rate_limit_window_seconds
              /\ Ticks(rres'[w].reset_at)
                    <= now[w] + Ticks(config.rate_limit_window_seconds)

\* C25: under concurrent callers, where each caller samples the current time
\* before acquiring the store lock, every denial's retry_after stays within
\* 0 <= retry_after <= the configured window (dedupe window for Deduped, rate
\* window for RateLimited) and resetAt is never more than one window after the
\* time the denied caller sampled.
C25_DenialWithinWindow == [][DenialWithinWindow]_vars

\* a worker holds a lock only inside the check of that store, and never both
LocksInsideChecks ==
    \A w \in Workers :
        /\ dlock = w => pc[w] \in {"d_update", "d_evict"}
        /\ rlock = w => pc[w] \in {"r_update", "r_evict"}
        /\ ~(dlock = w /\ rlock = w)

\* w's request has its response
Responded(w) == pc[w] = "done" /\ resp[w] # NoResp

\* C26: the pipeline is deadlock-free and every request terminates: no worker
\* ever holds the DedupeStore lock and the RateLimiter lock at the same time,
\* each lock is released on every path out of check (Accepted and denied), and
\* under fair scheduling with an upstream call that returns or times out,
\* every request that starts eventually produces its response.
C26_EveryRequestResponds ==
    /\ []LocksInsideChecks
    /\ \A w \in Workers : Busy(w) ~> Responded(w)

\* a request denied by the dedupe store has its response and has left the
\* lock, while the other worker is inside the rate limiter's check
C26_DeniedLeftLock ==
    /\ Responded("w1")
    /\ Answered("w1", 409, "DEDUPED")
    /\ dlock = NoWorker
    /\ pc["w2"] = "r_update"
    /\ rlock = "w2"

\* the denials of log
Denials(log) == {i \in DOMAIN log : log[i].res \in {Deduped, RateLimited}}

\* the next check of i's key after i, or 0
NextCheck(log, i) ==
    LET S == {j \in Checks(log) : j > i /\ log[j].k = log[i].k}
    IN IF S = {} THEN 0 ELSE CHOOSE j \in S : \A m \in S : j <= m

\* every next check of a denied key that comes at least wait(r) after the
\* denial, r being its retry_after, is Accepted
Honoured(log, wait(_)) ==
    \A i \in Denials(log) :
        LET j == NextCheck(log, i)
        IN (j # 0 /\ log[j].t >= log[i].t + Ticks(wait(log[i].out.retry_after)))
           => log[j].res = Accepted

\* the time the window of the denial i of log ends, the window started by the
\* check s
LeftInWindow(log, i, s, window) == log[s].t + Ticks(window) - log[i].t

\* a denial's retry_after is the time left in the window, rounded down
RoundedDown ==
    /\ \A i \in Denials(dlog) :
          dlog[i].out.retry_after
              = FloorSeconds(LeftInWindow(dlog, i, LastStamp(dlog, i),
                                          config.dedupe_window_seconds))
    /\ \A i \in Denials(rlog) :
          rlog[i].out.retry_after
              = FloorSeconds(LeftInWindow(rlog, i, WindowOf(rlog, i),
                                          config.rate_limit_window_seconds))

\* C27 as stated: if a check of key k at time t is denied with
\* retry_after = r (Deduped or RateLimited) and the next check of k happens at
\* time t + r or later, that next check returns Accepted, whatever checks of
\* other keys happen in between.
C27_RetryAfterHonoured ==
    /\ Honoured(dlog, LAMBDA r : r)
    /\ Honoured(rlog, LAMBDA r : r)

\* C27: a denial's retry_after is the time left in the window rounded down to
\* a whole second, so if a check of key k at time t is denied with
\* retry_after = r and the next check of k happens at time t + r + 1 or later,
\* that next check returns Accepted, whatever checks of other keys happen in
\* between.
C27_HonouredAfterOneMore ==
    /\ RoundedDown
    /\ Honoured(dlog, LAMBDA r : r + 1)
    /\ Honoured(rlog, LAMBDA r : r + 1)

\* an alert suppressed inside a second with Retry-After 0, another alert
\* checked, and the first alert accepted one second after its denial
C27_AcceptedOneSecondLater ==
    /\ pc["w1"] = "done"
    /\ \E i \in Denials(dlog) :
          LET j == NextCheck(dlog, i)
          IN /\ j # 0
             /\ j > i + 1
             /\ dlog[i].out.retry_after = 0
             /\ dlog[i].t % TicksPerSecond # 0
             /\ dlog[j].t = dlog[i].t + Ticks(1)
             /\ dlog[j].res = Accepted
             /\ \A m \in (i + 1)..(j - 1) : dlog[m].res # Evicted

====
